---- MODULE Spec2Model ----
(***************************************************************************)
(* Verification model of the grid models of DAV-SIPcreator:                *)
(*   - PandasModel   (src/creator/utils/pandasmodel.py), the grid of a SIP *)
(*     built from a folder scan: cell edits, date validation, propagation  *)
(*     of stuk dates to the dossier row, warning rows;                     *)
(*   - SQLliteModel  (src/creator/utils/sqlitemodel.py) and the part of    *)
(*     TabUI (src/creator/mainwindow.py) that enables the submission       *)
(*     controls.                                                           *)
(* Cell values are the strings the code handles.  The strings that occur   *)
(* are listed in LexOrder; strptime and Python's string order are given    *)
(* on exactly those strings.                                               *)
(***************************************************************************)
EXTENDS Integers, Sequences, FiniteSets, TLC

VARIABLES
    active,        \* the grid the user works in: "pandas" or "sqlite"
    edits,         \* number of user operations performed so far
    last,          \* the last operation: what was asked, what it returned, the model before
    \* ---- PandasModel
    data,          \* self._data: label -> column -> value
    order,         \* self._data.index: position -> label
    colors,        \* self.colors: label -> column -> "" | "RED" | "YELLOW"
    tooltips,      \* self.tooltips: label -> column -> "" | tooltip
    button,        \* self._create_sip_button.isEnabled()
    date_start,    \* self.date_start (None: no bound)
    date_end,      \* self.date_end (None: no bound)
    empty,         \* label -> what the file system reports for the row's path: an
                   \* empty folder or a file of size 0
    \* ---- SQLliteModel of one tab, and the TabUI that holds it
    sql,           \* the model object and the controls of its window, see TabUI_load_items;
                   \* the same tab held by position where a column is duplicated
    \* ---- the SIPs and dossiers of the application, and the main window
    app            \* see DigitalWidget_init

vars == <<active, edits, last, data, order, colors, tooltips, button, date_start, date_end,
          empty, sql, app>>

----------------------------------------------------------------------------
(* Bounds of the exploration *)

\* user operations per behaviour
MaxEdits == 1

----------------------------------------------------------------------------
(* Strings, dates *)

\* Every string that occurs as a cell value, in Python's str order (code points).
LexOrder ==
    << "", "1999-12-31", "2000-01-01", "2004-01-01", "2005-06-01", "2005-1-1",
       "2010-01-01", "2020-12-31", "2021-01-01", "2999-01-01", "9999-12-31", "x" >>

Strings == { LexOrder[i] : i \in 1..Len(LexOrder) }

\* the place of each string in that order
RankTable == [ s \in Strings |-> CHOOSE i \in 1..Len(LexOrder) : LexOrder[i] = s ]

Rank(s) == RankTable[s]

\* Python: a < b on str
StrLess(a, b) == Rank(a) < Rank(b)

\* Python: min(list), max(list) on a non-empty list of str
StrMin(S) == CHOOSE a \in S : \A b \in S : Rank(a) <= Rank(b)
StrMax(S) == CHOOSE a \in S : \A b \in S : Rank(a) >= Rank(b)

\* A datetime at midnight is the number yyyymmdd; None is 0.
None == 0

\* QModelIndex().row(): the row of the invalid index
InvalidRow == -1

\* QModelIndex.isValid, for the index of a row of the grid; the rows of a grid are
\* counted from 1 here
isValid(row) == row >= 1

\* datetime.strptime(s, "%Y-%m-%d"): %m and %d accept one digit, %Y needs four.
strptime(s) ==
    CASE s = "1999-12-31" -> 19991231
      [] s = "2000-01-01" -> 20000101
      [] s = "2004-01-01" -> 20040101
      [] s = "2005-06-01" -> 20050601
      [] s = "2005-1-1"   -> 20050101
      [] s = "2010-01-01" -> 20100101
      [] s = "2020-12-31" -> 20201231
      [] s = "2021-01-01" -> 20210101
      [] s = "2999-01-01" -> 29990101
      [] s = "9999-12-31" -> 99991231
      [] OTHER -> None

\* date.year
year(d) == d \div 10000

\* datetime.now(), held fixed during a session; date > now compares a midnight
\* with a moment of that day, so it holds exactly for a later day.
now == 20261102

----------------------------------------------------------------------------
(* PandasModel *)

Opening == "Openingsdatum"
Closing == "Sluitingsdatum"
Naam == "Naam"

\* self._data.columns, in the order _trigger_fill_data visits them
Columns == << "Path in SIP", "Type", "DossierRef", "Naam", "Openingsdatum", "Sluitingsdatum" >>
ColumnSet == { Columns[i] : i \in 1..Len(Columns) }

TipFormat == "Datum moet in het formaat YYYY-MM-DD zijn"
TipFuture == "Datum mag niet in de toekomst zijn"
TipBeforeStart == "Datum mag niet voor de start-datum van de serie zijn"
TipAfterEnd == "Datum mag niet na de eind-datum van de serie zijn"
TipOpeningAfterClosing == "De openingsdatum kan niet na de sluitingsdatum zijn"
TipClosingBeforeOpening == "De sluitingsdatum kan niet voor de openingsdatum zijn"
TipDossierOpening == "De openingsdatum van het dossier kan niet later zijn dan de openingsdatum van een stuk"
TipDossierClosing == "De sluitingsdatum van het dossier kan niet vroeger zijn dan de sluitingsdatum van een stuk"
TipName == "Een dossier moet verplicht een naam hebben"
TipEmptyDossier == "Lege dossiers worden niet meegenomen wanneer we een SIP maken"
TipEmptyFile == "Lege bestanden worden niet meegenomen wanneer we een SIP maken"

\* The model object as one value: operators take it and return the new one.
\* depth is the nesting of the setData calls in progress, and raised says that
\* RecursionError is on its way up the call stack.
Model == [ data |-> data, order |-> order, colors |-> colors, tooltips |-> tooltips,
           button |-> button, date_start |-> date_start, date_end |-> date_end,
           depth |-> 0, raised |-> FALSE ]

\* the nesting of setData calls that stands for the depth at which Python raises
\* RecursionError: a chain of calls that gets this far repeats itself
RecursionLimit == 2

Labels(m) == DOMAIN m.data

\* self._data.iloc[row, column], the row given by its label
cell(m, lbl, col) == m.data[lbl][col]

\* self._data.iloc[row, column] = value
set_cell_value(m, lbl, col, value) == [m EXCEPT !.data[lbl][col] = value]

\* is_data_valid, were a warning to count as an error
is_data_valid_counting_warnings(m) ==
    ~ \E l \in DOMAIN m.data : \E c \in ColumnSet : m.colors[l][c] \in {"RED", "YELLOW"}

is_data_valid(m) ==
    ~ \E l \in Labels(m) : \E c \in ColumnSet : m.colors[l][c] = "RED"

\* flags(index): TRUE iff ItemIsEditable is among the flags
flags_editable(m, row, col) ==
    /\ col \notin { Columns[1], Columns[2], Columns[3] }
    /\ m.colors[m.order[row]][col] # "YELLOW"

mark_bad_cell(m, row, col, color, tooltip) ==
    LET data_row == m.order[row]
    IN  [m EXCEPT !.colors[data_row][col] = color,
                  !.tooltips[data_row][col] = tooltip]

mark_warning_row(m, row, tooltip) ==
    LET data_row == m.order[row]
    IN  [m EXCEPT !.colors[data_row] = [c \in ColumnSet |-> "YELLOW"],
                  !.tooltips[data_row] = [c \in ColumnSet |-> tooltip]]

unmark_bad_cell(m, row, col) ==
    LET data_row == m.order[row]
    IN  [m EXCEPT !.colors[data_row][col] = "",
                  !.tooltips[data_row][col] = ""]

\* _name_data_check, were the type of the row not looked at
name_data_check_any_type(m, value, row, col) ==
    IF value = ""
    THEN [m |-> mark_bad_cell(m, row, Naam, "RED", TipName), ret |-> FALSE]
    ELSE [m |-> unmark_bad_cell(m, row, col), ret |-> TRUE]

name_data_check(m, value, row, col) ==
    IF value = "" /\ m.data[m.order[row]].Type = "dossier"
    THEN [m |-> mark_bad_cell(m, row, Naam, "RED", TipName), ret |-> FALSE]
    ELSE [m |-> unmark_bad_cell(m, row, col), ret |-> TRUE]

\* _date_invalid_check, were the end of the series not checked
date_invalid_check_without_end(m, date) ==
    IF date > now /\ year(date) # 9999 THEN TipFuture
    ELSE IF m.date_start # None /\ date < m.date_start THEN TipBeforeStart
    ELSE ""

\* the tooltip of the first check the date fails, "" when it passes all
date_invalid_check(m, date) ==
    IF date > now /\ year(date) # 9999 THEN TipFuture
    ELSE IF m.date_start # None /\ date < m.date_start THEN TipBeforeStart
    ELSE IF m.date_end # None /\ date > m.date_end THEN TipAfterEnd
    ELSE ""

\* the date strings of the stukken of dossier_ref that parse and pass the checks
get_date_values_for_dossier_ref(m, dossier_ref, column) ==
    { cell(m, l, column) :
        l \in { f \in Labels(m) :
                  /\ m.data[f].Type = "stuk"
                  /\ m.data[f].DossierRef = dossier_ref
                  /\ strptime(cell(m, f, column)) # None
                  /\ date_invalid_check(m, strptime(cell(m, f, column))) = "" } }

\* dossier.index.to_list()[0]: the label of the first row, in grid order, that is
\* the dossier of dossier_ref
dossier_label(m, dossier_ref) ==
    LET pos == { p \in DOMAIN m.order :
                   /\ m.data[m.order[p]].Type = "dossier"
                   /\ m.data[m.order[p]].DossierRef = dossier_ref }
    IN  m.order[CHOOSE p \in pos : \A q \in pos : p <= q]

RECURSIVE setData(_, _, _, _)
RECURSIVE date_data_check(_, _, _, _, _, _)
RECURSIVE update_dossier_date_range(_, _, _)

\* self.setData(self.index(row, col), value=value), called from within setData
nested_setData(m, row, col, value) ==
    LET r == setData([m EXCEPT !.depth = m.depth + 1], row, col, value).m
    IN  [r EXCEPT !.depth = m.depth]

update_dossier_date_range(m, dossier_ref, column) ==
    LET dossier == dossier_label(m, dossier_ref)
        opening_dates == get_date_values_for_dossier_ref(m, dossier_ref, Opening)
        closing_dates == get_date_values_for_dossier_ref(m, dossier_ref, Closing)
        \* the label is used as a grid position
        row == dossier
    IN  IF column = Opening /\ opening_dates # {}
        THEN IF StrLess(m.data[dossier].Openingsdatum, StrMin(opening_dates))
             THEN m
             ELSE nested_setData(m, row, Opening, StrMin(opening_dates))
        ELSE IF column = Closing /\ closing_dates # {}
        THEN IF StrLess(StrMax(closing_dates), m.data[dossier].Sluitingsdatum)
             THEN m
             ELSE nested_setData(m, row, Closing, StrMax(closing_dates))
        ELSE m

date_data_check(m, value, row, col, is_stuk, re_evaluation) ==
    LET lbl == m.order[row]
        opening_date == m.data[lbl].Openingsdatum
        closing_date == m.data[lbl].Sluitingsdatum
        date == strptime(value)
        dossier_ref == m.data[lbl].DossierRef
        opening_dates == get_date_values_for_dossier_ref(m, dossier_ref, Opening)
        closing_dates == get_date_values_for_dossier_ref(m, dossier_ref, Closing)
    IN  IF is_stuk /\ value = ""
        THEN [m |-> unmark_bad_cell(m, row, col), ret |-> TRUE]
        ELSE IF date = None
        THEN [m |-> mark_bad_cell(m, row, col, "RED", TipFormat), ret |-> FALSE]
        ELSE IF date_invalid_check(m, date) # ""
        THEN [m |-> mark_bad_cell(m, row, col, "RED", date_invalid_check(m, date)),
              ret |-> FALSE]
        ELSE IF opening_date # "" /\ closing_date # "" /\ StrLess(closing_date, opening_date)
        THEN [m |-> mark_bad_cell(
                        mark_bad_cell(m, row, Opening, "RED", TipOpeningAfterClosing),
                        row, Closing, "RED", TipClosingBeforeOpening),
              ret |-> FALSE]
        ELSE IF /\ ~is_stuk
                /\ col = Opening
                /\ opening_dates # {}
                /\ StrLess(StrMin(opening_dates), opening_date)
        THEN [m |-> mark_bad_cell(m, row, col, "RED", TipDossierOpening), ret |-> FALSE]
        ELSE IF /\ ~is_stuk
                /\ col = Closing
                /\ closing_dates # {}
                /\ StrLess(closing_date, StrMax(closing_dates))
        THEN [m |-> mark_bad_cell(m, row, col, "RED", TipDossierClosing), ret |-> FALSE]
        ELSE
            LET m1 == unmark_bad_cell(m, row, col)
                \* the linked cell of the row, checked with re_evaluation=True
                m2 == IF re_evaluation THEN m1
                      ELSE IF col = Opening
                      THEN date_data_check(m1, closing_date, row, Closing, is_stuk, TRUE).m
                      ELSE date_data_check(m1, opening_date, row, Opening, is_stuk, TRUE).m
                \* the dossier of a stuk: its values are read, then the range is
                \* updated, then both cells are checked with the values read before
                dossier_row == dossier_label(m2, dossier_ref)
                dossier_opening == m2.data[dossier_row].Openingsdatum
                dossier_closing == m2.data[dossier_row].Sluitingsdatum
                m3 == update_dossier_date_range(m2, dossier_ref, col)
                m4 == date_data_check(m3, dossier_opening, dossier_row, Opening, FALSE, TRUE).m
                m5 == date_data_check(m4, dossier_closing, dossier_row, Closing, FALSE, TRUE).m
            IN  [m |-> IF ~re_evaluation /\ is_stuk
                       THEN IF m3.raised THEN m3 ELSE m5
                       ELSE m2,
                 ret |-> TRUE]

\* setData, were the range of the dossier not updated again after the checks
setData_single_update(m, row, column, value) ==
    LET lbl == m.order[row]
        m1 == set_cell_value(m, lbl, column, value)
        is_stuk == m1.data[lbl].Type = "stuk"
        m2 == IF column = Naam THEN name_data_check(m1, value, row, column).m
              ELSE IF column \in {Opening, Closing}
              THEN date_data_check(m1, value, row, column, is_stuk, FALSE).m
              ELSE m1
    IN  IF m.depth > RecursionLimit
        THEN [m |-> [m EXCEPT !.raised = TRUE], ret |-> FALSE]
        ELSE IF ~isValid(row)
        THEN [m |-> m, ret |-> FALSE]
        ELSE IF m.colors[lbl][column] = "YELLOW"
        THEN [m |-> m, ret |-> FALSE]
        ELSE IF m2.raised
        THEN [m |-> m2, ret |-> FALSE]
        ELSE [m |-> [m2 EXCEPT !.button = is_data_valid(m2)], ret |-> TRUE]

setData(m, row, column, value) ==
    LET lbl == m.order[row]
        m1 == set_cell_value(m, lbl, column, value)
        is_stuk == m1.data[lbl].Type = "stuk"
        checked == date_data_check(m1, value, row, column, is_stuk, FALSE)
        m2 == IF column = Naam THEN name_data_check(m1, value, row, column).m
              ELSE IF column \in {Opening, Closing}
              THEN IF checked.ret /\ is_stuk /\ ~checked.m.raised
                   THEN update_dossier_date_range(checked.m, m1.data[lbl].DossierRef, column)
                   ELSE checked.m
              ELSE m1
    IN  IF m.depth > RecursionLimit
        THEN [m |-> [m EXCEPT !.raised = TRUE], ret |-> FALSE]
        ELSE IF ~isValid(row)
        THEN [m |-> m, ret |-> FALSE]
        ELSE IF m.colors[lbl][column] = "YELLOW"
        THEN [m |-> m, ret |-> FALSE]
        ELSE IF m2.raised
        THEN [m |-> m2, ret |-> FALSE]
        ELSE [m |-> [m2 EXCEPT !.button = is_data_valid(m2)], ret |-> TRUE]

\* _check_empty_rows: is_empty is what the file system reports for the path of each
\* row (an empty folder, or a file of size 0)
RECURSIVE check_empty_rows(_, _, _)
check_empty_rows(m, is_empty, row) ==
    IF row > Len(m.order) THEN m
    ELSE check_empty_rows(
             IF is_empty[row]
             THEN mark_warning_row(m, row,
                      IF m.data[row].Type = "dossier" THEN TipEmptyDossier ELSE TipEmptyFile)
             ELSE m,
             is_empty, row + 1)

\* _trigger_fill_data: every cell is set to the value it holds, row by row;
\* k counts the cells already visited
RECURSIVE trigger_fill_data(_, _)
trigger_fill_data(m, k) ==
    IF k >= Len(m.order) * Len(Columns) THEN m
    ELSE LET r == (k \div Len(Columns)) + 1
             c == Columns[(k % Len(Columns)) + 1]
         IN  trigger_fill_data(setData(m, r, c, cell(m, m.order[r], c)).m, k + 1)

\* PandasModel.__init__
PandasModel(frame, create_sip_button, date_range, is_empty) ==
    LET m0 == [ data |-> frame,
                order |-> [p \in DOMAIN frame |-> p],
                colors |-> [l \in DOMAIN frame |-> [c \in ColumnSet |-> ""]],
                tooltips |-> [l \in DOMAIN frame |-> [c \in ColumnSet |-> ""]],
                depth |-> 0,
                raised |-> FALSE,
                button |-> create_sip_button,
                date_start |-> date_range[1],
                date_end |-> date_range[2] ]
    IN  trigger_fill_data(check_empty_rows(m0, is_empty, 1), 0)

\* the values of "Path in SIP" in the order of Python's strings
PathOrder == << "D1", "D1/a", "D1/b", "D1/e", "D2" >>
PathRank(p) == CHOOSE i \in 1..Len(PathOrder) : PathOrder[i] = p

\* the labels of S in the order of their keys
RECURSIVE sort_values(_, _, _)
sort_values(S, key, ascending) ==
    IF S = {} THEN << >>
    ELSE LET first == CHOOSE x \in S :
                          \A y \in S : IF ascending THEN key[x] <= key[y] ELSE key[x] >= key[y]
         IN  <<first>> \o sort_values(S \ {first}, key, ascending)

\* PandasModel.sort on the column "Path in SIP", whose values differ from row to row:
\* the rows change position and keep their labels
sort(m, ascending) ==
    [m EXCEPT !.order = sort_values(DOMAIN m.data,
                                    [ l \in DOMAIN m.data |-> PathRank(m.data[l]["Path in SIP"]) ],
                                    ascending)]

----------------------------------------------------------------------------
(* SQLliteModel, and the controls of TabUI *)

\* self.columns of a tab: the column names in table order
SqlColumns ==
    << "id", "main_id", "Path in SIP", "Type", "DossierRef", "Naam",
       "Openingsdatum", "Sluitingsdatum" >>
SqlColumnSet == { SqlColumns[i] : i \in 1..Len(SqlColumns) }

ColumnIndex(name) == CHOOSE i \in 1..Len(SqlColumns) : SqlColumns[i] = name

SqlTipPathEmpty == "Path in SIP mag niet leeg zijn"
SqlTipPathSlash == "Path in SIP mag geen '/' bevatten"
SqlTipEmpty == "Datum mag niet leeg zijn"
SqlTipFormat == "Datum moet in het formaat yyyy-mm-dd zijn, en moet een geldige datum zijn"
SqlTipBeforeStart == "Datum mag niet voor de openingsdatum van de serie zijn"
SqlTipAfterEnd == "Datum mag niet na de sluitingsdatum van de serie zijn"
SqlTipOrder == "Openingsdatum mag niet na sluitingsdatum vallen"

\* str(v).replace('"', "").replace("'", "")
strip_quotes(v) == IF v = "2004-01-01'" THEN "2004-01-01" ELSE v

\* "/" in value
has_slash(value) == value = "D1/a"

\* value.split("/", 1)[0]
first_segment(value) == IF value = "D1/a" THEN "D1" ELSE value

\* The window of a series is read from the table name, "... (Geldig van <from> <to>)":
\* the first three and the last three words after "(Geldig van ", "..." for none,
\* month names replaced by numbers and parsed with "%d %m %Y".
TableNames == { "S (Geldig van ...)", "S (Geldig van 1 jan. 2000 t.e.m. 31 dec. 2020)" }

series_before(table_name) ==
    IF table_name = "S (Geldig van 1 jan. 2000 t.e.m. 31 dec. 2020)" THEN 20000101 ELSE None

series_after(table_name) ==
    IF table_name = "S (Geldig van 1 jan. 2000 t.e.m. 31 dec. 2020)" THEN 20201231 ELSE None

\* set_create_button_status: the create-SIPs button and can_upload are on iff no
\* model of self.tabs (the main list and the series tab) holds a RED color
set_create_button_status(s) ==
    LET red == \/ s.main_red
               \/ \E i \in DOMAIN s.colors : \E c \in SqlColumnSet : s.colors[i][c] = "RED"
    IN  [s EXCEPT !.create_sips_enabled = ~red, !.can_upload = ~red]

\* bad_rows_changed.emit: runs the slot TabUI.load_items connected
emit_bad_rows_changed(s) == IF s.connected THEN set_create_button_status(s) ELSE s

get_value(s, row, col) == strip_quotes(s.rows[row][col])

\* set_value, were the value also written to the table
set_value_through(s, row, col, new_value) ==
    [s EXCEPT !.has_changed = TRUE, !.rows[row][col] = strip_quotes(new_value),
              !.db[row][col] = strip_quotes(new_value)]

set_value(s, row, col, new_value) ==
    [s EXCEPT !.has_changed = TRUE, !.rows[row][col] = strip_quotes(new_value)]

\* _mark_cell; color "" is the call without a color, which unmarks
mark_cell(s, row, col, color, tooltip) ==
    LET id == s.rows[row]["id"]
    IN  emit_bad_rows_changed(
            IF color = ""
            THEN [s EXCEPT !.colors[id][col] = "", !.tooltips[id][col] = ""]
            ELSE [s EXCEPT !.colors[id][col] = color, !.tooltips[id][col] = tooltip])

path_in_sip_check(s, row, col, value) ==
    IF value = "" THEN mark_cell(s, row, col, "RED", SqlTipPathEmpty)
    ELSE IF has_slash(value) THEN mark_cell(s, row, col, "RED", SqlTipPathSlash)
    ELSE mark_cell(s, row, col, "", "")

date_check(s, row, col, value) ==
    LET date == strptime(value)
        before == series_before(s.table_name)
        after == series_after(s.table_name)
        start_date == strptime(s.rows[row][Opening])
        end_date == strptime(s.rows[row][Closing])
    IN  IF value = "" THEN mark_cell(s, row, col, "RED", SqlTipEmpty)
        ELSE IF date = None THEN mark_cell(s, row, col, "RED", SqlTipFormat)
        ELSE IF before # None /\ date < before
        THEN mark_cell(s, row, col, "RED", SqlTipBeforeStart)
        ELSE IF after # None /\ date > after
        THEN mark_cell(s, row, col, "RED", SqlTipAfterEnd)
        ELSE IF start_date = None \/ end_date = None
        THEN mark_cell(s, row, col, "", "")
        ELSE IF start_date > end_date
        THEN mark_cell(mark_cell(s, row, Opening, "RED", SqlTipOrder),
                       row, Closing, "RED", SqlTipOrder)
        ELSE mark_cell(mark_cell(s, row, Opening, "", ""), row, Closing, "", "")

\* SQLliteModel.setData with role EditRole on a valid index; it returns True
sql_setData(s, row, col, value) ==
    LET column == SqlColumns[col]
        s1 == set_value(s, row, column, value)
    IN  IF ~isValid(row) THEN s
        ELSE IF column = "Path in SIP"
        THEN set_value(
                 set_value(path_in_sip_check(s1, row, column, value),
                           row, SqlColumns[col + 1],
                           IF has_slash(value) THEN "stuk" ELSE "dossier"),
                 row, SqlColumns[col + 2], first_segment(value))
        ELSE IF column \in {Opening, Closing}
        THEN date_check(s1, row, column, value)
        ELSE s1

\* SQLliteModel.flags: TRUE iff ItemIsEditable is among the flags of a tab's cell
sql_flags_editable(col) == SqlColumns[col] \notin {"Type", "DossierRef"}

\* the loop of get_data that sets every cell to the value the row holds when the
\* loop reaches it; k counts the cells already visited
RECURSIVE replay(_, _)
replay(s, k) ==
    IF k >= Len(s.rows) * Len(SqlColumns) THEN s
    ELSE LET r == (k \div Len(SqlColumns)) + 1
             c == (k % Len(SqlColumns)) + 1
         IN  replay(sql_setData(s, r, c, s.rows[r][SqlColumns[c]]), k + 1)

\* get_data, were has_changed not put back after the cells are set again
get_data_flag_set(s) ==
    LET merged == [ r \in DOMAIN s.db |->
                      IF s.has_changed /\ r \in DOMAIN s.rows THEN s.rows[r] ELSE s.db[r] ]
    IN  replay([s EXCEPT !.rows = merged], 0)

\* get_data: the rows of the table, overwritten with the rows in memory when
\* has_changed, then every cell set again; has_changed is kept
get_data(s) ==
    LET merged == [ r \in DOMAIN s.db |->
                      IF s.has_changed /\ r \in DOMAIN s.rows THEN s.rows[r] ELSE s.db[r] ]
    IN  [ replay([s EXCEPT !.rows = merged], 0) EXCEPT !.has_changed = s.has_changed ]

\* SQLliteModel.__init__ for the table as stored, then TabUI.load_items: the
\* signal is connected and the controls are set
TabUI_load_items(db, table_name, main_red) ==
    LET s0 == [ rows |-> << >>,
                colors |-> [ i \in { db[r]["id"] : r \in DOMAIN db } |->
                               [ c \in SqlColumnSet |-> "" ] ],
                tooltips |-> [ i \in { db[r]["id"] : r \in DOMAIN db } |->
                                 [ c \in SqlColumnSet |-> "" ] ],
                has_changed |-> FALSE,
                table_name |-> table_name,
                db |-> db,
                connected |-> FALSE,
                main_red |-> main_red,
                create_sips_enabled |-> TRUE,
                can_upload |-> FALSE ]
    IN  set_create_button_status([ get_data(s0) EXCEPT !.connected = TRUE ])

\* Python's order (code points) of the strings the cells of a tab hold
SqlLexOrder ==
    << "", "1999-12-31", "2000-01-01", "2004-01-01", "2020-12-31", "2021-01-01",
       "D1", "D1/a", "D2", "dossier", "stuk", "x" >>
SqlRank(v) == CHOOSE i \in 1..Len(SqlLexOrder) : SqlLexOrder[i] = v

\* self._data.sort(key=lambda row: row[col], reverse=...): the positions P of rows
\* not yet placed, in the order of their keys; the sort is stable, also when
\* reversed
RECURSIVE sql_sorted(_, _, _, _)
sql_sorted(rows, P, col, reverse) ==
    IF P = {} THEN << >>
    ELSE LET before(p, q) ==
                 LET kp == SqlRank(rows[p][col])
                     kq == SqlRank(rows[q][col])
                 IN  IF kp = kq THEN p < q ELSE IF reverse THEN kp > kq ELSE kp < kq
             first == CHOOSE p \in P : \A q \in P \ {p} : before(p, q)
         IN  <<rows[first]>> \o sql_sorted(rows, P \ {first}, col, reverse)

\* SQLliteModel.sort
sql_sort(s, col, reverse) ==
    [s EXCEPT !.rows = sql_sorted(s.rows, DOMAIN s.rows, SqlColumns[col], reverse)]

\* save_data, were the stored row found by its position and not by main_id
save_rows_by_position(s, db, row) ==
    [ d \in DOMAIN db |->
        IF d \in DOMAIN s.rows
        THEN [ c \in SqlColumnSet |-> IF ColumnIndex(c) > 2 THEN s.rows[d][c] ELSE db[d][c] ]
        ELSE db[d] ]

\* the UPDATE statements of save_data, one per row in memory from row on: every
\* stored row with the main_id of the row gets its columns after main_id
RECURSIVE save_rows(_, _, _)
save_rows(s, db, row) ==
    IF row > Len(s.rows) THEN db
    ELSE save_rows(s,
             [ d \in DOMAIN db |->
                 IF db[d]["main_id"] = s.rows[row]["main_id"]
                 THEN [ c \in SqlColumnSet |->
                          IF ColumnIndex(c) > 2 THEN s.rows[row][c] ELSE db[d][c] ]
                 ELSE db[d] ],
             row + 1)

\* SQLliteModel.save_data
save_data(s) == [s EXCEPT !.db = save_rows(s, s.db, 1), !.has_changed = FALSE]

\* TabUI.save_tabs: every tab but the main list is saved
save_tabs(s) == [save_data(s) EXCEPT !.has_changed = FALSE]

\* TabUI.reload_tabs
reload_tabs(s) == get_data(s)

\* TabUI.closeEvent: the user is asked only when a model has changed (the main
\* list cannot be edited), and save is what the user answers
closeEvent(s, save) ==
    IF ~s.has_changed THEN [s |-> s, asked |-> FALSE]
    ELSE [s |-> IF save THEN save_tabs(s) ELSE s, asked |-> TRUE]

----------------------------------------------------------------------------
(* The record sets a grid is built from *)

Row(path, type, ref, naam, opening, closing) ==
    [ c \in ColumnSet |->
        CASE c = "Path in SIP" -> path
          [] c = "Type" -> type
          [] c = "DossierRef" -> ref
          [] c = "Naam" -> naam
          [] c = "Openingsdatum" -> opening
          [] c = "Sluitingsdatum" -> closing ]

\* A dossier with two files: the dates of the dossier and of the first file.
TwoFiles(d, a) ==
    << Row("D1", "dossier", "D1", "x", d[1], d[2]),
       Row("D1/a", "stuk", "D1", "a", a[1], a[2]),
       Row("D1/b", "stuk", "D1", "b", "", "") >>

FramesTwoFiles ==
    { TwoFiles(<<"2005-06-01", "2010-01-01">>, a) :
        a \in { <<"", "">>, <<"", "2000-01-01">>, <<"2004-01-01", "2005-06-01">>,
                 <<"2005-06-01", "2004-01-01">>, <<"2010-01-01", "2005-06-01">> } }
    \cup { TwoFiles(<<"", "">>, a) : a \in { <<"", "">>, <<"2004-01-01", "2005-06-01">> } }
    \cup { TwoFiles(<<"1999-12-31", "2010-01-01">>, <<"", "">>) }

\* A dossier with a file and an empty file (its row is of type "geen").
FramesEmptyFile ==
    { << Row("D1", "dossier", "D1", "x", d[1], d[2]),
         Row("D1/a", "stuk", "D1", "a", a[1], a[2]),
         Row("D1/e", "geen", "D1", "e", "2004-01-01", "x") >> :
        d \in { <<"2005-06-01", "2010-01-01">> },
        a \in { <<"", "">>, <<"2004-01-01", "2005-06-01">> } }

\* A dossier with a file and a dossier whose folder is empty.
FramesEmptyDossier ==
    { << Row("D1", "dossier", "D1", "x", d[1], d[2]),
         Row("D1/a", "stuk", "D1", "a", a[1], a[2]),
         Row("D2", "dossier", "D2", "", "", "") >> :
        d \in { <<"2005-06-01", "2010-01-01">> },
        a \in { <<"", "">>, <<"2004-01-01", "2005-06-01">> } }

Series == << 20000101, 20201231 >>

\* frame, what the file system reports as empty, date_range
PandasInputs ==
    { <<f, <<FALSE, FALSE, FALSE>>, Series>> : f \in FramesTwoFiles }
    \cup { << TwoFiles(d, <<"", "">>), <<FALSE, FALSE, FALSE>>, <<None, None>> >> :
               d \in { <<"2005-06-01", "2010-01-01">>, <<"2999-01-01", "9999-12-31">> } }
    \cup { <<f, <<FALSE, FALSE, TRUE>>, Series>> : f \in FramesEmptyFile \cup FramesEmptyDossier }

SqlRow(id, main_id, path, type, ref, opening, closing) ==
    [ c \in SqlColumnSet |->
        CASE c = "id" -> id
          [] c = "main_id" -> main_id
          [] c = "Path in SIP" -> path
          [] c = "Type" -> type
          [] c = "DossierRef" -> ref
          [] c = "Naam" -> ""
          [] c = "Openingsdatum" -> opening
          [] c = "Sluitingsdatum" -> closing ]

\* The stored tables: rows as TabUI.add_to_new inserts them (only main_id set), and
\* a dossier with one stuk as saved after editing.
SqlTables ==
    { << SqlRow("1", "11", "", "", "", "", ""), SqlRow("2", "12", "", "", "", "", "") >>,
      << SqlRow("1", "11", "D1", "dossier", "D1", "2000-01-01", "2020-12-31"),
         SqlRow("2", "12", "D1/a", "stuk", "D1", "2004-01-01", "2004-01-01") >> }

\* what a series tab is opened on: a stored table, the name of the table, and whether
\* the main tab carries a red cell
SqlInputs ==
    { <<db, t, FALSE>> : db \in SqlTables, t \in TableNames }
    \cup { << << SqlRow("1", "11", "D1", "dossier", "D1", "2000-01-01", "2020-12-31"),
                 SqlRow("2", "12", "D1/a", "stuk", "D1", "2004-01-01", "2004-01-01") >>,
              "S (Geldig van 1 jan. 2000 t.e.m. 31 dec. 2020)", TRUE >> }

SqlPaths == { "", "D1", "D2", "D1/a" }
SqlDates == { "", "x", "1999-12-31", "2000-01-01", "2004-01-01", "2020-12-31",
              "2021-01-01", "2004-01-01'" }

\* the values the user types into a cell of a column of a tab
SqlValues(col) ==
    IF SqlColumns[col] = "Path in SIP" THEN SqlPaths
    ELSE IF SqlColumns[col] \in {Opening, Closing} THEN SqlDates
    ELSE { "", "x" }

----------------------------------------------------------------------------
(* Specification *)

\* The SIPs and dossiers of the application (DigitalWidget) and the main window:
\*   app.sips           application.state.sips: name -> status, and what the file
\*                      system holds for the SIP: archive and sidecar (the saved
\*                      files exist), metadata ("" for no path, "ok" for a
\*                      readable file, "unreadable" for one read_excel fails on)
\*   app.stored         the status of each SIP that db_controller.read_sips returns
\*   app.dossiers       application.state.dossiers: path -> disabled, exists
\*   app.dossiers_list  the dossiers shown
\*   app.sip_list       the SIPs in sip_list_view
\*   app.missing_sips   the names the dialog "Missende bestanden" lists
\*   app.loaded         load_items has run
\*   app.closed         closeEvent accepted and the application has quit
SIPStatuses ==
    { "IN_PROGRESS", "SIP_CREATED", "UPLOADING", "UPLOADED", "PROCESSING", "ACCEPTED",
      "REJECTED" }

\* the statuses for which load_items looks for the saved files
SavedStatuses == { "SIP_CREATED", "UPLOADING", "UPLOADED", "ACCEPTED", "REJECTED" }

\* not os.path.exists(archive or not os.path.exists(sidecar)): the path of the
\* archive is a non-empty string, so "archive or ..." is the archive path and the
\* sidecar is never looked at
saved_files_missing(sip) == ~sip.archive

\* the SIPs load_items skips: a saved file is missing, or the metadata file
\* cannot be read
skipped_for_files(a) ==
    { n \in DOMAIN a.sips : a.sips[n].status \in SavedStatuses /\ saved_files_missing(a.sips[n]) }
skipped_for_metadata(a) ==
    { n \in DOMAIN a.sips \ skipped_for_files(a) : a.sips[n].metadata = "unreadable" }

\* SIP.set_status; value_changed is connected to state.update_sip, which stores
\* the SIP
set_status(a, n, status) ==
    [a EXCEPT !.sips[n].status = status, !.stored[n] = status]

\* the part of the loop of load_items that resets the status, for the SIPs of N
RECURSIVE reset_uploading(_, _)
reset_uploading(a, N) ==
    IF N = {} THEN a
    ELSE LET n == CHOOSE m \in N : TRUE
         IN  reset_uploading(IF a.sips[n].status = "UPLOADING"
                             THEN set_status(a, n, "SIP_CREATED") ELSE a,
                             N \ {n})

\* DigitalWidget.load_items; answer is what the user answers when asked whether
\* the dossiers that are gone are to be removed from the list
load_items(a, answer) ==
    LET removed_dossiers == { d \in DOMAIN a.dossiers :
                                ~a.dossiers[d].disabled /\ ~a.dossiers[d].exists }
        shown == { d \in DOMAIN a.dossiers :
                     ~a.dossiers[d].disabled /\ a.dossiers[d].exists }
        kept == IF removed_dossiers # {} /\ answer
                THEN DOMAIN a.dossiers \ removed_dossiers
                ELSE DOMAIN a.dossiers
        missing_sips == skipped_for_files(a) \cup skipped_for_metadata(a)
        a1 == [a EXCEPT !.dossiers = [ d \in kept |-> a.dossiers[d] ],
                        !.dossiers_list = shown,
                        !.sip_list = DOMAIN a.sips \ missing_sips,
                        !.missing_sips = missing_sips,
                        !.loaded = TRUE]
    IN  reset_uploading(a1, DOMAIN a.sips \ missing_sips)

\* MainWindow.closeEvent: TRUE iff the event is accepted
closeEvent_accepts(a) == ~\E n \in DOMAIN a.stored : a.stored[n] = "UPLOADING"

\* DigitalWidget.__init__ at the start of the application: the state holds the
\* SIPs and dossiers that were stored, nothing is shown yet
DigitalWidget_init(sips, dossiers) ==
    [ sips |-> sips,
      stored |-> [ n \in DOMAIN sips |-> sips[n].status ],
      dossiers |-> dossiers,
      dossiers_list |-> {},
      sip_list |-> {},
      missing_sips |-> {},
      loaded |-> FALSE,
      closed |-> FALSE ]

\* the application without SIPs and dossiers
IdleApp == DigitalWidget_init(<< >>, << >>)

\* the grid that is not in use
IdlePandas == PandasModel(<< Row("D1", "dossier", "D1", "x", "", "") >>, TRUE, <<None, None>>, <<FALSE>>)
IdleSql == TabUI_load_items(<< >>, "S (Geldig van ...)", FALSE)

Install(m) ==
    /\ data = m.data
    /\ order = m.order
    /\ colors = m.colors
    /\ tooltips = m.tooltips
    /\ button = m.button
    /\ date_start = m.date_start
    /\ date_end = m.date_end

InitPandas ==
    /\ active = "pandas"
    /\ \E in \in PandasInputs, b \in BOOLEAN :
          /\ Install(PandasModel(in[1], b, in[3], in[2]))
          /\ empty = in[2]
          /\ last = [ op |-> "init", frame |-> in[1] ]
    /\ sql = IdleSql

InitSql ==
    /\ active = "sqlite"
    /\ Install(IdlePandas)
    /\ empty = <<FALSE>>
    /\ \E in \in SqlInputs :
          /\ sql = TabUI_load_items(in[1], in[2], in[3])
          /\ last = [ op |-> "init", frame |-> in[1] ]

Init ==
    /\ edits = 0
    /\ app = IdleApp
    /\ (InitPandas \/ InitSql)

\* what the user types into a cell of the grid of a SIP
PandasValues(col) ==
    IF col = Naam THEN {"", "x"} ELSE Strings \ {"2005-06-01", "2010-01-01"}

\* the user edits a cell of the grid of a SIP
SetData ==
    /\ active = "pandas"
    /\ edits < MaxEdits
    /\ \E row \in DOMAIN order \cup {InvalidRow}, col \in {Naam, Opening, Closing} :
          \E value \in IF isValid(row) THEN PandasValues(col) ELSE {"x"} :
              LET r == setData(Model, row, col, value)
              IN  /\ data' = r.m.data
                  /\ colors' = r.m.colors
                  /\ tooltips' = r.m.tooltips
                  /\ button' = r.m.button
                  /\ last' = [ op |-> "setData", row |-> row, col |-> col, value |-> value,
                               ret |-> r.ret, raised |-> r.m.raised, before |-> Model ]
    /\ edits' = edits + 1
    /\ UNCHANGED <<active, order, date_start, date_end, empty, sql, app>>

\* the user sorts the grid of a SIP on its first column
Sort ==
    /\ active = "pandas"
    /\ edits < MaxEdits
    /\ \E ascending \in BOOLEAN : order' = sort(Model, ascending).order
    /\ UNCHANGED <<active, edits, last, data, colors, tooltips, button, date_start, date_end,
                   empty, sql, app>>

\* the list window is open
SqlOpen == active = "sqlite" /\ last.op # "closeEvent"

\* a set_cell was applied since the tab was built or last saved
Dirty == last.op # "init" /\ last.dirty

\* the user edits a cell of a series tab
SqlSetData ==
    /\ active = "sqlite"
    /\ last.op # "closeEvent"
    /\ edits < MaxEdits
    /\ \E row \in DOMAIN sql.rows \cup {InvalidRow},
          col \in { c \in DOMAIN SqlColumns : sql_flags_editable(c) } :
          \E value \in IF isValid(row) THEN SqlValues(col) ELSE {"x"} :
              /\ SqlColumns[col] \notin {"id", "main_id"}
              /\ sql' = sql_setData(sql, row, col, value)
              /\ last' = [ op |-> "sql_setData", row |-> row, col |-> SqlColumns[col],
                           value |-> value, ret |-> isValid(row), before |-> sql,
                           dirty |-> (isValid(row) \/ Dirty) ]
    /\ edits' = edits + 1
    /\ UNCHANGED <<active, data, order, colors, tooltips, button, date_start, date_end, empty, app>>

\* the user sorts a series tab on a column
SqlSort ==
    /\ SqlOpen
    /\ \E col \in { ColumnIndex("Path in SIP") }, reverse \in BOOLEAN :
          /\ sql' = sql_sort(sql, col, reverse)
          /\ last' = [ op |-> "sort", dirty |-> Dirty ]
    /\ UNCHANGED <<active, edits, data, order, colors, tooltips, button, date_start,
                   date_end, empty, app>>

\* the user presses the save button
SqlSave ==
    /\ SqlOpen
    /\ sql' = save_tabs(sql)
    /\ last' = [ op |-> "save_tabs", before |-> sql, dirty |-> FALSE ]
    /\ UNCHANGED <<active, edits, data, order, colors, tooltips, button, date_start,
                   date_end, empty, app>>

\* the configuration changes and the tabs are loaded again
SqlReload ==
    /\ SqlOpen
    /\ sql' = reload_tabs(sql)
    /\ last' = [ op |-> "get_data", before |-> sql, dirty |-> Dirty ]
    /\ UNCHANGED <<active, edits, data, order, colors, tooltips, button, date_start,
                   date_end, empty, app>>

\* the user closes the list window, and answers the question if it is asked
SqlClose ==
    /\ SqlOpen
    /\ \E save \in BOOLEAN :
          LET r == closeEvent(sql, save)
          IN  /\ sql' = r.s
              /\ last' = [ op |-> "closeEvent", before |-> sql, asked |-> r.asked,
                           save |-> save, dirty |-> Dirty /\ ~(r.asked /\ save) ]
    /\ UNCHANGED <<active, edits, data, order, colors, tooltips, button, date_start,
                   date_end, empty, app>>

Next == SetData \/ Sort \/ SqlSetData \/ SqlSort \/ SqlSave \/ SqlReload \/ SqlClose

Spec == Init /\ [][Next]_vars

----------------------------------------------------------------------------
(* Duplicating a column of a tab.  SQLliteModel keeps its rows as lists and
   finds a cell by the position of its column; TabUI.add_column rebuilds the
   table with new columns in the middle of it.  Here the tab is held by
   position, as the code holds it:
     sql.table    the table: its columns, and its rows as lists of values
     sql.columns  self.columns, the names by position
     sql.rows     self._data, a list of lists
     sql.marks    self.colors/self.tooltips: the set of [id, col, tip] held,
                  col a position; every mark of a series tab is RED *)

\* the number of operations on the tab in this view
MaxColumnSteps == 2

\* a column name: f'{name}_{value}', and name itself for value 0
Col(name, value) == [ name |-> name, n |-> value ]

LocationColumns ==
    << "Origineel Doosnummer", "Legacy locatie ID", "Legacy range", "Verpakkingstype" >>

\* list.index, 0 when the name is not in the list
IndexOf(columns, c) ==
    IF \E i \in DOMAIN columns : columns[i] = c
    THEN CHOOSE i \in DOMAIN columns : columns[i] = c
    ELSE 0

\* the loop of find_next: the first value from value on with no column
\* f'{name}_{value}'
RECURSIVE find_next_value(_, _, _)
find_next_value(old_columns, name, value) ==
    IF IndexOf(old_columns, Col(name, value)) # 0
    THEN find_next_value(old_columns, name, value + 1)
    ELSE value

\* find_next: the new column name, and the previous one to look for
find_next(old_columns, name) ==
    LET value == find_next_value(old_columns, name, 1)
    IN  << Col(name, value), Col(name, value - 1) >>

\* the statements of add_column on the table: renamed, created again with the
\* new column(s) after the previous one, filled from the old rows (a new column
\* holds NULL, which get_data reads as ""), the old table dropped
add_column_table(table, location_cols) ==
    LET old_columns == table.columns
        found == find_next(old_columns,
                           IF location_cols THEN "Origineel Doosnummer"
                           ELSE "Trefwoorden_vrij")
        new_column_name == found[1]
        previous_column_name ==
            IF location_cols THEN Col("Verpakkingstype", found[2].n) ELSE found[2]
        added == IF location_cols
                 THEN [ i \in 1..4 |-> Col(LocationColumns[i], new_column_name.n) ]
                 ELSE << new_column_name >>
        p == IndexOf(old_columns, previous_column_name)
        widen(seq, new) ==
            IF p = 0 THEN seq
            ELSE SubSeq(seq, 1, p) \o new \o SubSeq(seq, p + 1, Len(seq))
    IN  [ columns |-> widen(old_columns, added),
          rows |-> [ r \in DOMAIN table.rows |->
                       widen(table.rows[r], [ i \in DOMAIN added |-> "" ]) ] ]

\* _mark_cell by position; tip "" is the call without a color, which unmarks
tab_mark_cell(t, row, col, tip) ==
    LET id == t.rows[row][1]
        others == { m \in t.marks : ~(m.id = id /\ m.col = col) }
    IN  [t EXCEPT !.marks = IF tip = "" THEN others
                            ELSE others \cup { [ id |-> id, col |-> col, tip |-> tip ] }]

\* set_value by position
tab_set_value(t, row, col, new_value) ==
    [t EXCEPT !.has_changed = TRUE, !.rows[row][col] = strip_quotes(new_value)]

\* path_in_sip_check by position
tab_path_in_sip_check(t, row, col, value) ==
    IF value = "" THEN tab_mark_cell(t, row, col, SqlTipPathEmpty)
    ELSE IF has_slash(value) THEN tab_mark_cell(t, row, col, SqlTipPathSlash)
    ELSE tab_mark_cell(t, row, col, "")

\* date_check by position: the other date of the row is read at the position
\* the name has in self.columns
tab_date_check(t, row, col, value) ==
    LET date == strptime(value)
        before == series_before(t.table_name)
        after == series_after(t.table_name)
        start_column == IndexOf(t.columns, Col(Opening, 0))
        end_column == IndexOf(t.columns, Col(Closing, 0))
        start_date == strptime(t.rows[row][start_column])
        end_date == strptime(t.rows[row][end_column])
    IN  IF value = "" THEN tab_mark_cell(t, row, col, SqlTipEmpty)
        ELSE IF date = None THEN tab_mark_cell(t, row, col, SqlTipFormat)
        ELSE IF before # None /\ date < before
        THEN tab_mark_cell(t, row, col, SqlTipBeforeStart)
        ELSE IF after # None /\ date > after
        THEN tab_mark_cell(t, row, col, SqlTipAfterEnd)
        ELSE IF start_date = None \/ end_date = None
        THEN tab_mark_cell(t, row, col, "")
        ELSE IF start_date > end_date
        THEN tab_mark_cell(tab_mark_cell(t, row, start_column, SqlTipOrder),
                           row, end_column, SqlTipOrder)
        ELSE tab_mark_cell(tab_mark_cell(t, row, start_column, ""), row, end_column, "")

\* SQLliteModel.setData by position, on a valid index
tab_setData(t, row, col, value) ==
    LET column == t.columns[col]
        t1 == tab_set_value(t, row, col, value)
    IN  IF column = Col("Path in SIP", 0)
        THEN tab_set_value(
                 tab_set_value(tab_path_in_sip_check(t1, row, col, value),
                               row, col + 1,
                               IF has_slash(value) THEN "stuk" ELSE "dossier"),
                 row, col + 2, first_segment(value))
        ELSE IF column \in { Col(Opening, 0), Col(Closing, 0) }
        THEN tab_date_check(t1, row, col, value)
        ELSE t1

\* the loop of get_data that sets every cell again, by position
RECURSIVE tab_replay(_, _)
tab_replay(t, k) ==
    IF k >= Len(t.rows) * Len(t.columns) THEN t
    ELSE LET r == (k \div Len(t.columns)) + 1
             c == (k % Len(t.columns)) + 1
         IN  tab_replay(tab_setData(t, r, c, t.rows[r][c]), k + 1)

\* get_data by position: the rows of the table, and when has_changed every cell
\* at a row and a column position that self._data has is overwritten with the
\* value self._data holds at that position; self.columns is read again from the
\* table; then every cell is set again
tab_get_data(t) ==
    LET db_data == t.table.rows
        new_data ==
            [ r \in DOMAIN db_data |->
                [ c \in DOMAIN db_data[r] |->
                    IF t.has_changed /\ r <= Len(t.rows) /\ c <= Len(t.rows[r])
                    THEN t.rows[r][c]
                    ELSE db_data[r][c] ] ]
    IN  [ tab_replay([t EXCEPT !.rows = new_data, !.columns = t.table.columns], 0)
            EXCEPT !.has_changed = t.has_changed ]

\* save_data by position: the row of the table with the main_id of each row in
\* memory gets, in the column named self.columns[col], the value at col, for
\* every col after main_id
RECURSIVE tab_save_rows(_, _, _)
tab_save_rows(t, table, row) ==
    IF row > Len(t.rows) THEN table
    ELSE tab_save_rows(t,
             [table EXCEPT !.rows =
                 [ d \in DOMAIN table.rows |->
                     IF table.rows[d][2] = t.rows[row][2]
                     THEN [ c \in DOMAIN table.rows[d] |->
                              LET col == IndexOf(t.columns, table.columns[c])
                              IN  IF col > 2 THEN t.rows[row][col] ELSE table.rows[d][c] ]
                     ELSE table.rows[d] ]],
             row + 1)

tab_save_data(t) ==
    [t EXCEPT !.table = tab_save_rows(t, t.table, 1), !.has_changed = FALSE]

\* TabUI.add_column: the table is rebuilt, the model of the tab reads it again
add_column(t, location_cols) ==
    tab_get_data([t EXCEPT !.table = add_column_table(t.table, location_cols)])

\* SQLliteModel.__init__ on a stored table
tab_init(table, table_name) ==
    tab_get_data([ table |-> table, columns |-> << >>, rows |-> << >>, marks |-> {},
                   has_changed |-> FALSE, table_name |-> table_name ])

\* The columns of a tab are those of the import template of its series, after
\* id and main_id; two templates, one with the keywords before the dates and one
\* with the box columns before the keywords.
Plain(names) == [ i \in DOMAIN names |-> Col(names[i], 0) ]
Templates ==
    { Plain(<< "id", "main_id", "Path in SIP", "Type", "DossierRef", "Trefwoorden_vrij",
               Opening, Closing >>),
      Plain(<< "id", "main_id", "Path in SIP", "Type", "DossierRef", Opening, Closing >>
            \o LocationColumns \o << "Trefwoorden_vrij" >>) }

\* a stored row for a layout: the dossier D1 or its stuk D1/a, with a keyword
StoredRow(columns, id, path, type) ==
    [ c \in DOMAIN columns |->
        CASE columns[c].name = "id" -> id
          [] columns[c].name = "main_id" -> id
          [] columns[c].name = "Path in SIP" -> path
          [] columns[c].name = "Type" -> type
          [] columns[c].name = "DossierRef" -> "D1"
          [] columns[c].name = "Trefwoorden_vrij" -> "x"
          [] columns[c].name = Opening -> "2000-01-01"
          [] columns[c].name = Closing -> "2004-01-01"
          [] OTHER -> "" ]

\* the values typed into the cells of a tab in this view
TabValues == { "", "x", "2020-12-31" }

InitColumns ==
    /\ active = "columns"
    /\ edits = 0
    /\ last = [ op |-> "init" ]
    /\ Install(IdlePandas)
    /\ empty = <<FALSE>>
    /\ app = IdleApp
    /\ \E columns \in Templates, table_name \in TableNames :
          sql = tab_init([ columns |-> columns,
                           rows |-> << StoredRow(columns, "1", "D1", "dossier"),
                                       StoredRow(columns, "2", "D1/a", "stuk") >> ],
                         table_name)

\* the user edits a cell of the tab that flags() gives as editable; the columns
\* id and main_id are hidden
TabSetData ==
    /\ active = "columns" /\ edits < MaxColumnSteps
    /\ \E row \in DOMAIN sql.rows, col \in DOMAIN sql.columns, value \in TabValues :
          /\ col > 2
          /\ sql.columns[col].name \notin {"Type", "DossierRef"}
          /\ sql' = tab_setData(sql, row, col, value)
          /\ last' = [ op |-> "tab_setData", before |-> sql ]
    /\ edits' = edits + 1
    /\ UNCHANGED <<active, data, order, colors, tooltips, button, date_start,
                   date_end, empty, app>>

\* one of the two buttons that duplicate a column
TabAddColumn ==
    /\ active = "columns" /\ edits < MaxColumnSteps
    /\ \E location_cols \in BOOLEAN :
          /\ sql' = add_column(sql, location_cols)
          /\ last' = [ op |-> "add_column", before |-> sql, location_cols |-> location_cols ]
    /\ edits' = edits + 1
    /\ UNCHANGED <<active, data, order, colors, tooltips, button, date_start,
                   date_end, empty, app>>

\* the tab is saved
TabSave ==
    /\ active = "columns" /\ edits < MaxColumnSteps
    /\ sql' = tab_save_data(sql)
    /\ last' = [ op |-> "tab_save_data", before |-> sql ]
    /\ edits' = edits + 1
    /\ UNCHANGED <<active, data, order, colors, tooltips, button, date_start,
                   date_end, empty, app>>

NextColumns == TabSetData \/ TabAddColumn \/ TabSave

SpecColumns == InitColumns /\ [][NextColumns]_vars

----------------------------------------------------------------------------
(* The start of the application: the stored SIPs are loaded, the window is
   closed *)

SipNames == { "SIP 1", "SIP 2" }
DossierPaths == { "D1" }

\* what the application finds at its start for one SIP
StoredSips ==
    [ status : SIPStatuses, archive : BOOLEAN, sidecar : BOOLEAN,
      metadata : { "", "ok", "unreadable" } ]

InitSips ==
    /\ active = "sips"
    /\ edits = 0
    /\ last = [ op |-> "init" ]
    /\ Install(IdlePandas)
    /\ empty = <<FALSE>>
    /\ sql = IdleSql
    /\ \E sips \in [ SipNames -> StoredSips ],
          dossiers \in [ DossierPaths -> [ disabled : BOOLEAN, exists : BOOLEAN ] ] :
          app = DigitalWidget_init(sips, dossiers)

\* set_main: the central widget loads its items
LoadItems ==
    /\ active = "sips" /\ ~app.closed
    /\ \E answer \in BOOLEAN :
          /\ app' = load_items(app, answer)
          /\ last' = [ op |-> "load_items", before |-> app, answer |-> answer ]
    /\ UNCHANGED <<active, edits, data, order, colors, tooltips, button, date_start,
                   date_end, empty, sql>>

\* the user closes the main window
CloseEvent ==
    /\ active = "sips" /\ ~app.closed
    /\ app' = [app EXCEPT !.closed = closeEvent_accepts(app)]
    /\ last' = [ op |-> "closeEvent", before |-> app, accepted |-> closeEvent_accepts(app) ]
    /\ UNCHANGED <<active, edits, data, order, colors, tooltips, button, date_start,
                   date_end, empty, sql>>

NextSips == LoadItems \/ CloseEvent

SpecSips == InitSips /\ [][NextSips]_vars

----------------------------------------------------------------------------
(* Vocabulary of the claims *)

PandasEdit == active = "pandas" /\ last.op = "setData" /\ isValid(last.row)
SqlEdit == active = "sqlite" /\ last.op = "sql_setData" /\ isValid(last.row)

\* the label of the row the last PandasModel edit addressed
EditedLabel == last.before.order[last.row]

DateColumns == {Opening, Closing}

\* "valid" as the claims use it: well-formed, not in the future (the year 9999
\* stands for "no end"), inside the series bounds
WellFormed(v) == strptime(v) # None
InFuture(v) == strptime(v) > now /\ year(strptime(v)) # 9999
BeforeSeries(v) == date_start # None /\ strptime(v) < date_start
AfterSeries(v) == date_end # None /\ strptime(v) > date_end
ValidDate(v) == WellFormed(v) /\ ~InFuture(v) /\ ~BeforeSeries(v) /\ ~AfterSeries(v)

Dossiers == { l \in DOMAIN data : data[l]["Type"] = "dossier" }
Stukken(d) == { l \in DOMAIN data : data[l]["Type"] = "stuk"
                                    /\ data[l]["DossierRef"] = data[d]["DossierRef"] }

HasError(l) == \E c \in ColumnSet : colors[l][c] = "RED"

\* the dossier's opening date is not later than any valid opening date of its stukken
OpeningEnvelops(d) ==
    \A f \in Stukken(d) :
        ValidDate(data[f][Opening]) =>
            /\ WellFormed(data[d][Opening])
            /\ strptime(data[d][Opening]) <= strptime(data[f][Opening])

\* the dossier's closing date is not earlier than any valid closing date of its stukken
ClosingEnvelops(d) ==
    \A f \in Stukken(d) :
        ValidDate(data[f][Closing]) =>
            /\ WellFormed(data[d][Closing])
            /\ strptime(data[d][Closing]) >= strptime(data[f][Closing])

\* the row's dates are both well-formed and the opening date is the later one
RowConflict(l) ==
    /\ WellFormed(data[l][Opening])
    /\ WellFormed(data[l][Closing])
    /\ strptime(data[l][Opening]) > strptime(data[l][Closing])

----------------------------------------------------------------------------
(* Claims *)

\* C1: PandasModel. After a set_cell of a stuk row's Openingsdatum or
\* Sluitingsdatum cell has returned, every dossier either envelops the valid dates
\* of its stukken (opening <= the earliest valid opening, closing >= the latest
\* valid closing) or carries an error annotation on its row.
C1_DossierEnvelopsOrError ==
    (PandasEdit /\ last.ret /\ last.col \in DateColumns /\ data[EditedLabel]["Type"] = "stuk") =>
        \A d \in Dossiers : (OpeningEnvelops(d) /\ ClosingEnvelops(d)) \/ HasError(d)

\* C2: PandasModel. A set_cell that writes, on a stuk row, a valid opening date
\* earlier than the opening date of its dossier, the row having no opening >
\* closing conflict, makes the dossier's opening date the earliest valid opening
\* date of its stukken and leaves the date cells of the stuk and of the dossier
\* without error.  Taken in the claim's favour: before the edit no date cell of
\* the stuk or of the dossier carries an error, and the dossier envelops its
\* stukken.
C2_OpeningPropagates ==
    LET s == EditedLabel
        b == last.before
        d == CHOOSE l \in Dossiers : data[l]["DossierRef"] = data[s]["DossierRef"]
        openings == { strptime(data[f][Opening]) :
                        f \in { g \in Stukken(d) : ValidDate(data[g][Opening]) } }
    IN  ( /\ PandasEdit /\ last.ret /\ last.col = Opening
          /\ data[s]["Type"] = "stuk"
          /\ ValidDate(last.value)
          /\ WellFormed(b.data[d][Opening])
          /\ strptime(last.value) < strptime(b.data[d][Opening])
          /\ ~RowConflict(s)
          /\ \A l \in {s, d} : \A c \in DateColumns : b.colors[l][c] = ""
          /\ \A f \in Stukken(d) : \A c \in DateColumns :
                 b.data[f][c] = "" \/ (f # s /\ ValidDate(b.data[f][c]))
                 \/ (f = s /\ c = Closing /\ ValidDate(b.data[f][c]))
          /\ ValidDate(b.data[d][Closing])
          /\ \A f \in Stukken(d) : ValidDate(b.data[f][Closing]) =>
                 strptime(b.data[f][Closing]) <= strptime(b.data[d][Closing]) )
        =>
        /\ WellFormed(data[d][Opening])
        /\ \A o \in openings : strptime(data[d][Opening]) <= o
        /\ strptime(data[d][Opening]) \in openings
        /\ \A l \in {s, d} : \A c \in DateColumns : colors[l][c] # "RED"

\* the last PandasModel edit got past the warning guard and wrote its value: it
\* returned True, or RecursionError ended it
Wrote == PandasEdit /\ (last.ret \/ last.raised)

\* C3: is_valid is true exactly when no cell is RED, whatever is YELLOW.  After
\* every applied set_cell, that is one that returned True, the submission control
\* is enabled iff no RED is held: the create-SIP button of PandasModel; the
\* create-SIPs button and can_upload of the tabs, which are enabled iff no model
\* of the tabs holds a RED.
NoRed == \A l \in DOMAIN colors : \A c \in ColumnSet : colors[l][c] # "RED"
SqlNoRed ==
    /\ ~sql.main_red
    /\ \A i \in DOMAIN sql.colors : \A c \in SqlColumnSet : sql.colors[i][c] # "RED"
C4_SetCellIdempotent ==
    /\ (PandasEdit /\ order = last.before.order) =>
          LET again == setData(Model, last.row, last.col, last.value).m
          IN  /\ again.data = data
              /\ again.colors = colors
              /\ again.tooltips = tooltips
    /\ SqlEdit =>
          LET again == sql_setData(sql, last.row, ColumnIndex(last.col), last.value)
          IN  /\ again.rows = sql.rows
              /\ again.colors = sql.colors
              /\ again.tooltips = sql.tooltips
\* a date set on a stuk has moved the opening date of its dossier
C4_Witness ==
    /\ PandasEdit /\ last.ret /\ last.col = Opening
    /\ order = last.before.order
    /\ data[EditedLabel]["Type"] = "stuk"
    /\ \E d \in Dossiers : /\ data[d][Opening] = last.value
                            /\ last.before.data[d][Opening] # last.value
                            /\ colors # last.before.colors

\* C5: every cell of a row whose folder or file is empty is a warning; a set_cell
\* on a cell of such a row returns False and leaves every value and annotation as
\* it was; the cells of the row are not editable; and is_valid holds when the
\* warnings are the only annotations.
WarningRows == { l \in DOMAIN data : empty[l] }
C5_WarningRowsRejectEdits ==
    active = "pandas" =>
        /\ \A l \in WarningRows : \A c \in ColumnSet : colors[l][c] = "YELLOW"
        /\ \A p \in DOMAIN order : \A c \in ColumnSet :
               order[p] \in WarningRows => ~flags_editable(Model, p, c)
        /\ (PandasEdit /\ EditedLabel \in WarningRows) =>
               /\ ~last.ret
               /\ data = last.before.data
               /\ colors = last.before.colors
               /\ tooltips = last.before.tooltips
        /\ (\A l \in DOMAIN colors : \A c \in ColumnSet : colors[l][c] \in {"", "YELLOW"})
               => is_data_valid(Model)

\* C6: a set_cell on a cell that is not under a warning stores the new value in
\* the record, whether or not validation marks it; and a RED cell stays editable:
\* a set_cell on it is performed.
C6_WriteNeverRejected ==
    /\ (PandasEdit /\ last.before.colors[EditedLabel][last.col] # "YELLOW") =>
          /\ last.ret
          /\ data[EditedLabel][last.col] = last.value
    /\ active = "pandas" =>
          \A p \in DOMAIN order : \A c \in {Naam, Opening, Closing} :
              colors[order[p]][c] = "RED" => flags_editable(Model, p, c)
    /\ SqlEdit => sql.rows[last.row][last.col] = last.value
    /\ active = "sqlite" =>
          \A c \in DOMAIN SqlColumns :
              SqlColumns[c] \in {"Path in SIP", Opening, Closing} => sql_flags_editable(c)

\* C7: in every reachable state every record of type stuk has a DossierRef that
\* is the DossierRef of exactly one record of type dossier.
C7_StukHasOneDossier ==
    /\ active = "pandas" =>
          \A l \in DOMAIN data :
              data[l]["Type"] = "stuk" =>
                  Cardinality({ d \in DOMAIN data :
                                  /\ data[d]["Type"] = "dossier"
                                  /\ data[d]["DossierRef"] = data[l]["DossierRef"] }) = 1
    /\ active = "sqlite" =>
          \A r \in DOMAIN sql.rows :
              sql.rows[r]["Type"] = "stuk" =>
                  Cardinality({ d \in DOMAIN sql.rows :
                                  /\ sql.rows[d]["Type"] = "dossier"
                                  /\ sql.rows[d]["DossierRef"] = sql.rows[r]["DossierRef"] }) = 1

\* C8: a set_cell of the "Path in SIP" cell of a stuk row to the empty string
\* marks that cell RED with the message that the path must not be empty, and
\* leaves the Type and the DossierRef of the row as they were.
C8_EmptyPathKeepsTypeAndRef ==
    ( /\ SqlEdit
      /\ last.col = "Path in SIP"
      /\ last.value = ""
      /\ last.before.rows[last.row]["Type"] = "stuk" )
    =>
    LET id == sql.rows[last.row]["id"]
    IN  /\ sql.colors[id]["Path in SIP"] = "RED"
        /\ sql.tooltips[id]["Path in SIP"] = SqlTipPathEmpty
        /\ sql.rows[last.row]["Type"] = last.before.rows[last.row]["Type"]
        /\ sql.rows[last.row]["DossierRef"] = last.before.rows[last.row]["DossierRef"]

\* the last PandasModel edit wrote a date cell
DateEdit == Wrote /\ last.col \in DateColumns

\* the check the value of the last edit fails first, as the claims order them:
\* format, future, series start, series end; "" when it fails none
FailedCheck(v) ==
    IF ~WellFormed(v) THEN TipFormat
    ELSE IF InFuture(v) THEN TipFuture
    ELSE IF BeforeSeries(v) THEN TipBeforeStart
    ELSE IF AfterSeries(v) THEN TipAfterEnd
    ELSE ""

\* C9: PandasModel. A set_cell of a date cell whose value fails the format, the
\* future-date or the series check (an empty value on a stuk fails none) marks
\* that cell RED with the message of the check, stores the value, and changes
\* neither the value nor the annotation of any other cell: no sibling
\* re-validation, no propagation to the dossier.
C9_FailedDateMarksThatCellOnly ==
    ( /\ DateEdit
      /\ FailedCheck(last.value) # ""
      /\ ~(last.value = "" /\ last.before.data[EditedLabel]["Type"] = "stuk") )
    =>
    /\ last.ret
    /\ colors[EditedLabel][last.col] = "RED"
    /\ tooltips[EditedLabel][last.col] = FailedCheck(last.value)
    /\ data[EditedLabel][last.col] = last.value
    /\ \A l \in DOMAIN data : \A c \in ColumnSet :
           (l # EditedLabel \/ c # last.col) =>
               /\ data[l][c] = last.before.data[l][c]
               /\ colors[l][c] = last.before.colors[l][c]
               /\ tooltips[l][c] = last.before.tooltips[l][c]
\* a date after the end of the series is set on a stuk whose dossier it would
\* otherwise have moved
C9_Witness ==
    /\ DateEdit /\ last.col = Closing /\ last.value = "2021-01-01"
    /\ date_end = 20201231
    /\ data[EditedLabel]["Type"] = "stuk"
    /\ tooltips[EditedLabel][Closing] = TipAfterEnd
    /\ \E d \in Dossiers : /\ data[d]["DossierRef"] = data[EditedLabel]["DossierRef"]
                            /\ data[d][Closing] = "2010-01-01"

\* the window of the series of the tab, and the cell of the last edit of a tab
SqlStart == series_before(sql.table_name)
SqlEnd == series_after(sql.table_name)
SqlEditedId == sql.rows[last.row]["id"]

\* C10: the bounds of the series are inclusive, and absent bounds constrain
\* nothing.  A set_cell of a well-formed date (not in the future, for
\* PandasModel) earlier than the start or later than the end of the series marks
\* the cell RED with the message of that bound; a date from the start up to the
\* end, both included, or any date when the bound is absent, gets no message of
\* a series bound.
C10_SeriesBoundsInclusive ==
    /\ (DateEdit /\ last.ret /\ WellFormed(last.value) /\ ~InFuture(last.value)) =>
          LET v == strptime(last.value)
              tip == tooltips[EditedLabel][last.col]
          IN  /\ (date_start # None /\ v < date_start) =>
                     colors[EditedLabel][last.col] = "RED" /\ tip = TipBeforeStart
              /\ (date_end # None /\ v > date_end /\ ~(date_start # None /\ v < date_start)) =>
                     colors[EditedLabel][last.col] = "RED" /\ tip = TipAfterEnd
              /\ (date_start = None \/ v >= date_start) => tip # TipBeforeStart
              /\ (date_end = None \/ v <= date_end) => tip # TipAfterEnd
    /\ (SqlEdit /\ last.col \in DateColumns /\ WellFormed(last.value)) =>
          LET v == strptime(last.value)
              tip == sql.tooltips[SqlEditedId][last.col]
          IN  /\ (SqlStart # None /\ v < SqlStart) =>
                     sql.colors[SqlEditedId][last.col] = "RED" /\ tip = SqlTipBeforeStart
              /\ (SqlEnd # None /\ v > SqlEnd /\ ~(SqlStart # None /\ v < SqlStart)) =>
                     sql.colors[SqlEditedId][last.col] = "RED" /\ tip = SqlTipAfterEnd
              /\ (SqlStart = None \/ v >= SqlStart) => tip # SqlTipBeforeStart
              /\ (SqlEnd = None \/ v <= SqlEnd) => tip # SqlTipAfterEnd

\* C11: PandasModel. A set_cell of a date cell with a well-formed date of the year
\* 9999 never leaves the message of the future-date check on that cell; with any
\* other well-formed date later than now it leaves the cell RED with that message.
C11_Year9999NeverFuture ==
    (DateEdit /\ WellFormed(last.value)) =>
        LET v == strptime(last.value)
        IN  /\ year(v) = 9999 => tooltips[EditedLabel][last.col] # TipFuture
            /\ (v > now /\ year(v) # 9999) =>
                   /\ colors[EditedLabel][last.col] = "RED"
                   /\ tooltips[EditedLabel][last.col] = TipFuture

\* C12: every set_cell terminates: no PandasModel.setData ends in RecursionError,
\* which is how a chain of setData, _date_data_check and
\* _update_dossier_date_range that triggers itself without end ends in Python.
C12_SetCellTerminates == PandasEdit => ~last.raised

C15_DirtyFlag ==
    active = "sqlite" =>
        /\ sql.has_changed <=> Dirty
        /\ last.op = "get_data" => (sql.has_changed <=> last.before.has_changed)
        /\ last.op = "save_tabs" => ~sql.has_changed
        /\ last.op = "closeEvent" => (last.asked <=> last.before.has_changed)
\* an edited tab is closed: the user is asked, answers save, and the flag is reset
C15_Witness ==
    /\ active = "sqlite"
    /\ last.op = "closeEvent" /\ last.asked /\ last.save
    /\ last.before.has_changed /\ ~sql.has_changed

\* the last operation saved the tab
Saved ==
    /\ active = "sqlite"
    /\ \/ last.op = "save_tabs"
       \/ last.op = "closeEvent" /\ last.asked /\ last.save

InvalidEdit == last.op \in {"setData", "sql_setData"} /\ ~isValid(last.row)

\* what the caller of the last setData got
Outcome ==
    IF last.op = "setData" /\ last.raised THEN "exception"
    ELSE IF last.ret THEN "True" ELSE "False"

\* the last setData left every value, color and tooltip of the grid as it was
NothingChanged ==
    IF active = "pandas"
    THEN data = last.before.data /\ colors = last.before.colors
         /\ tooltips = last.before.tooltips
    ELSE sql.rows = last.before.rows /\ sql.colors = last.before.colors
         /\ sql.tooltips = last.before.tooltips

\* C17: a set_cell addressed to a cell that does not exist (an invalid index)
\* changes no value and no annotation, and the caller is told of a contract
\* violation: it gets an exception, not the value False that setData also
\* returns for an edit it declines on a cell that exists.
C17_InvalidIndexSignalled ==
    InvalidEdit => (NothingChanged /\ Outcome = "exception")

\* the last step was a setData of a Naam cell that was applied
NameEdit == PandasEdit /\ last.ret /\ last.col = Naam

\* C18: the name rule of PandasModel.  An applied set_cell of a Naam cell leaves
\* that cell RED with the message that a dossier needs a name iff the value is
\* empty and the row is a dossier; otherwise (a name that is not empty, or any
\* name on a row that is not a dossier) the cell carries no annotation.  The
\* cell holds the value, and no other cell changes value or annotation.
C18_NameRule ==
    NameEdit =>
        LET l == EditedLabel
        IN  /\ data[l][Naam] = last.value
            /\ IF last.value = "" /\ data[l]["Type"] = "dossier"
               THEN colors[l][Naam] = "RED" /\ tooltips[l][Naam] = TipName
               ELSE colors[l][Naam] = "" /\ tooltips[l][Naam] = ""
            /\ \A k \in DOMAIN data : \A c \in ColumnSet :
                   (k # l \/ c # Naam) =>
                       /\ data[k][c] = last.before.data[k][c]
                       /\ colors[k][c] = last.before.colors[k][c]
                       /\ tooltips[k][c] = last.before.tooltips[k][c]
\* the name of a dossier is emptied in a sorted grid, and the dossier is marked
C18_Witness ==
    /\ NameEdit /\ last.value = ""
    /\ data[EditedLabel]["Type"] = "dossier"
    /\ last.before.data[EditedLabel][Naam] # ""
    /\ last.before.order[last.row] # last.row
    /\ colors[EditedLabel][Naam] = "RED"

\* C19: a row whose opening date is later than its closing date has both date
\* cells marked.  After an applied set_cell of a date cell with a value that
\* passes the format, the future and the series check, if the opening date of the
\* row is later than its closing date, then the opening cell and the closing cell
\* of the row are both RED, whichever of the two was edited; for
\* PandasModel.setData and for SQLliteModel.setData.
C19_ConflictMarksBoth ==
    /\ ( /\ PandasEdit /\ last.ret /\ last.col \in DateColumns
         /\ ValidDate(last.value)
         /\ WellFormed(data[EditedLabel][Opening])
         /\ WellFormed(data[EditedLabel][Closing])
         /\ strptime(data[EditedLabel][Opening]) > strptime(data[EditedLabel][Closing]) )
       => /\ colors[EditedLabel][Opening] = "RED"
          /\ colors[EditedLabel][Closing] = "RED"
    /\ ( /\ SqlEdit /\ last.col \in DateColumns
         /\ WellFormed(last.value)
         /\ ~(SqlStart # None /\ strptime(last.value) < SqlStart)
         /\ ~(SqlEnd # None /\ strptime(last.value) > SqlEnd)
         /\ WellFormed(sql.rows[last.row][Opening])
         /\ WellFormed(sql.rows[last.row][Closing])
         /\ strptime(sql.rows[last.row][Opening]) > strptime(sql.rows[last.row][Closing]) )
       => /\ sql.colors[SqlEditedId][Opening] = "RED"
          /\ sql.colors[SqlEditedId][Closing] = "RED"

\* both date cells of the row carry the marks of "opening after closing"
MarkedForConflict(m, l) ==
    /\ m.colors[l][Opening] = "RED" /\ m.tooltips[l][Opening] = TipOpeningAfterClosing
    /\ m.colors[l][Closing] = "RED" /\ m.tooltips[l][Closing] = TipClosingBeforeOpening

\* every check but the order of the two dates passes on both date cells of the
\* row: both dates are valid, and a dossier envelops every date of its stukken
OtherChecksPass(l) ==
    /\ ValidDate(data[l][Opening])
    /\ ValidDate(data[l][Closing])
    /\ data[l]["Type"] = "dossier" =>
          \A f \in Stukken(l) : \A c \in DateColumns :
              data[f][c] # "" =>
                  /\ WellFormed(data[f][c])
                  /\ strptime(data[l][Opening]) <= strptime(data[f][c])
                  /\ strptime(data[f][c]) <= strptime(data[l][Closing])

\* C20: PandasModel, re-validation of the sibling date cell.  When both date
\* cells of a row are marked because the opening date is later than the closing
\* date, and an applied set_cell of one of them leaves the row with an opening
\* date that is not later than its closing date while every other check passes,
\* then neither date cell of the row carries an annotation afterwards: the
\* sibling cell was validated again with the value it holds.
C20_SiblingRevalidated ==
    ( /\ PandasEdit /\ last.ret /\ last.col \in DateColumns
      /\ MarkedForConflict(last.before, EditedLabel)
      /\ OtherChecksPass(EditedLabel)
      /\ strptime(data[EditedLabel][Opening]) <= strptime(data[EditedLabel][Closing]) )
    => /\ colors[EditedLabel][Opening] = "" /\ tooltips[EditedLabel][Opening] = ""
       /\ colors[EditedLabel][Closing] = "" /\ tooltips[EditedLabel][Closing] = ""

\* the last step was an applied setData of a date cell of a dossier row
DossierEdit ==
    /\ PandasEdit /\ last.ret /\ last.col \in DateColumns
    /\ data[EditedLabel]["Type"] = "dossier"

\* the valid dates the stukken of dossier d hold in column c
ValidStukDates(d, c) ==
    { strptime(data[f][c]) : f \in { g \in Stukken(d) : ValidDate(data[g][c]) } }

TipDossier(c) == IF c = Opening THEN TipDossierOpening ELSE TipDossierClosing

\* C21: PandasModel, a date cell of a dossier row is edited.  A well-formed
\* opening date later than the earliest valid opening date of the stukken of the
\* dossier (a closing date earlier than their latest valid closing date) leaves
\* the edited cell RED; when the dossier has no stuk with a valid date in that
\* column, or the value envelops them, the cell does not carry the message of
\* the envelope check.
C21_DossierEditEnvelops ==
    (DossierEdit /\ WellFormed(last.value)) =>
        LET v == strptime(last.value)
            S == ValidStukDates(EditedLabel, last.col)
            outside == IF last.col = Opening THEN \E d \in S : v > d
                       ELSE \E d \in S : v < d
        IN  /\ outside => colors[EditedLabel][last.col] = "RED"
            /\ ~outside => tooltips[EditedLabel][last.col] # TipDossier(last.col)

\* the last step was a setData of a date cell of a stuk row that stored its value
StukDateEdit ==
    /\ DateEdit
    /\ last.before.data[EditedLabel]["Type"] = "stuk"

\* the dossiers the row l refers to
Parents(l) == { d \in Dossiers : data[d]["DossierRef"] = data[l]["DossierRef"] }

\* C22: propagation goes one way.  A set_cell of a date cell of a stuk changes,
\* besides that cell, at most the value of the same column of the dossier of the
\* stuk, and a dossier that held a date before still holds one, with an opening
\* date that is not later and a closing date that is not earlier than before;
\* so emptying or invalidating the date of a stuk never shrinks the range of
\* the dossier.
C22_PropagationOneWay ==
    StukDateEdit =>
        LET s == EditedLabel
            b == last.before
        IN  /\ \A l \in DOMAIN data : \A c \in ColumnSet :
                   (data[l][c] # b.data[l][c] /\ ~(l = s /\ c = last.col)) =>
                       (l \in Parents(s) /\ c = last.col)
            /\ \A d \in Parents(s) :
                   /\ WellFormed(b.data[d][Opening]) =>
                          /\ WellFormed(data[d][Opening])
                          /\ strptime(data[d][Opening]) <= strptime(b.data[d][Opening])
                   /\ WellFormed(b.data[d][Closing]) =>
                          /\ WellFormed(data[d][Closing])
                          /\ strptime(data[d][Closing]) >= strptime(b.data[d][Closing])

\* C23: PandasModel, the date cell of a stuk is emptied.  After a set_cell of a
\* date cell of a stuk row with the empty string, that cell holds the empty
\* string and carries no annotation, and no other cell has changed its value or
\* its annotation: no sibling re-validation, no write to the dossier.
C23_EmptyStukDateStops ==
    (StukDateEdit /\ last.value = "") =>
        /\ data[EditedLabel][last.col] = ""
        /\ colors[EditedLabel][last.col] = ""
        /\ tooltips[EditedLabel][last.col] = ""
        /\ \A l \in DOMAIN data : \A c \in ColumnSet :
               (l # EditedLabel \/ c # last.col) =>
                   /\ data[l][c] = last.before.data[l][c]
                   /\ colors[l][c] = last.before.colors[l][c]
                   /\ tooltips[l][c] = last.before.tooltips[l][c]

\* the state the constructor of PandasModel leaves, sorted or not
Built == active = "pandas" /\ last.op = "init"

\* the dossiers the frame held without dates
CreatedEmpty ==
    { d \in Dossiers : last.frame[d][Opening] = "" /\ last.frame[d][Closing] = "" }

\* the stukken of dossier d with a valid opening date and a valid closing date
\* that the initial fill validated without finding opening after closing
ValidatedStukken(d) ==
    { f \in Stukken(d) : /\ ValidDate(data[f][Opening])
                         /\ ValidDate(data[f][Closing])
                         /\ ~RowConflict(f)
                         /\ colors[f][Opening] = "" /\ colors[f][Closing] = "" }

\* C24: a dossier created without dates gets them from its stukken.  In the grid
\* the constructor leaves (after the initial fill), a dossier the frame held
\* with empty dates and with a stuk that has a valid opening and a valid closing
\* date holds the earliest valid opening date and the latest valid closing date
\* of its stukken, and neither of its date cells is RED.
C24_EmptyDossierFilled ==
    Built =>
        \A d \in CreatedEmpty :
            ValidatedStukken(d) # {} =>
                /\ WellFormed(data[d][Opening])
                /\ WellFormed(data[d][Closing])
                /\ \A o \in ValidStukDates(d, Opening) : strptime(data[d][Opening]) <= o
                /\ strptime(data[d][Opening]) \in ValidStukDates(d, Opening)
                /\ \A o \in ValidStukDates(d, Closing) : strptime(data[d][Closing]) >= o
                /\ strptime(data[d][Closing]) \in ValidStukDates(d, Closing)
                /\ colors[d][Opening] # "RED"
                /\ colors[d][Closing] # "RED"

\* the other date column of a row
Sibling(c) == IF c = Opening THEN Closing ELSE Opening

\* the two messages of "opening after closing"
ConflictTips == { TipOpeningAfterClosing, TipClosingBeforeOpening }

\* C25: PandasModel, annotations follow the values.  The annotations of a row's
\* date cells are determined by the values the grid holds, not by the edits
\* that led to them; in particular, after a set_cell has left a date cell empty
\* or unparseable, the sibling date cell of that row does not carry the error
\* of "opening after closing", which needs two dates to compare.
C25_AnnotationsFollowValues ==
    (DateEdit /\ ~WellFormed(data[EditedLabel][last.col])) =>
        tooltips[EditedLabel][Sibling(last.col)] \notin ConflictTips

\* the value is one SQLliteModel.date_check rejects by itself: empty, not a date,
\* or outside the bounds of the series named in the tab
SqlBadDate(v) ==
    \/ v = ""
    \/ ~WellFormed(v)
    \/ SqlStart # None /\ strptime(v) < SqlStart
    \/ SqlEnd # None /\ strptime(v) > SqlEnd

\* C26: SQLliteModel, every bad date is marked.  In every state of an open tab
\* (after the load, any set_cell, a sort, a save or a get_data replay) every
\* Openingsdatum and Sluitingsdatum cell whose value is empty, not a valid
\* YYYY-MM-DD date or outside the bounds of the series is RED; the validation of
\* the sibling date cell of the row does not take that mark away.
C26_SqlBadDateMarked ==
    active = "sqlite" =>
        \A r \in DOMAIN sql.rows : \A c \in DateColumns :
            SqlBadDate(sql.rows[r][c]) => sql.colors[sql.rows[r]["id"]][c] = "RED"

\* C27: PandasModel, row identity under sorting.  Whatever sorts came before, a
\* set_cell of a date cell of a stuk touches the edited record and the dossier
\* with the DossierRef of that stuk, and no other record: every other record
\* keeps its values and its annotations.
C27_RowIdentity ==
    StukDateEdit =>
        \A l \in DOMAIN data :
            (l # EditedLabel /\ l \notin Parents(EditedLabel)) =>
                /\ data[l] = last.before.data[l]
                /\ colors[l] = last.before.colors[l]
                /\ tooltips[l] = last.before.tooltips[l]

\* the value the tab shows in row r under the column named c, "" when it has no
\* such column (get_value)
Shown(t, r, c) ==
    IF IndexOf(t.columns, c) = 0 THEN "" ELSE strip_quotes(t.rows[r][IndexOf(t.columns, c)])

\* the last step duplicated a column of the tab
Duplicated == active = "columns" /\ last.op = "add_column"

\* C28: duplicating a column keeps the values.  After add_column and the reload
\* of the model, the tab has the rows it had, every row shows under every column
\* name that existed before the value it showed before, with or without unsaved
\* edits, and shows nothing under the new column(s).
C28_DuplicateKeepsValues ==
    Duplicated =>
        /\ Len(sql.rows) = Len(last.before.rows)
        /\ \A r \in DOMAIN sql.rows : \A i \in DOMAIN sql.columns :
              LET c == sql.columns[i]
              IN  IF IndexOf(last.before.columns, c) # 0
                  THEN Shown(sql, r, c) = Shown(last.before, r, c)
                  ELSE Shown(sql, r, c) = ""
        /\ \A i \in DOMAIN last.before.columns :
              IndexOf(sql.columns, last.before.columns[i]) # 0

\* C29: UPLOADING does not survive a restart.  Once load_items has run, no SIP of
\* the application state has the status UPLOADING, none is stored with it, and a
\* closeEvent (no upload is running in this view) is accepted.
C29_UploadingReset ==
    (active = "sips" /\ app.loaded) =>
        /\ \A n \in DOMAIN app.sips : app.sips[n].status # "UPLOADING"
        /\ \A n \in DOMAIN app.stored : app.stored[n] # "UPLOADING"
        /\ last.op = "closeEvent" => last.accepted

\* C30: load_items and the saved files.  After load_items, a SIP with one of the
\* statuses SIP_CREATED, UPLOADING, UPLOADED, ACCEPTED, REJECTED is in the SIP
\* list only if its archive and its sidecar both exist, and when either is
\* missing it is skipped and named in the list of missing files.
C30_MissingFilesSkipped ==
    (active = "sips" /\ last.op = "load_items") =>
        \A n \in DOMAIN app.sips :
            last.before.sips[n].status \in SavedStatuses =>
                /\ n \in app.sip_list => (app.sips[n].archive /\ app.sips[n].sidecar)
                /\ (~app.sips[n].archive \/ ~app.sips[n].sidecar) =>
                      (n \notin app.sip_list /\ n \in app.missing_sips)

====
